---- MODULE Spec2Model ----
(***************************************************************************)
(* A model of phosphor-messaging (src/src/index.ts): the per-handler       *)
(* MessageDispatcher (filter chain, pending queue), the dispatchQueue and  *)
(* the message loop.                                                       *)
(*                                                                         *)
(* The program is single threaded but re-entrant: the user callbacks       *)
(* filterMessage and processMessage may call every exported function while *)
(* a dispatch is on the call stack, so the call stack is part of the       *)
(* state.  Library code runs without interruption from one user callback   *)
(* to the next, so a step of the model runs the library from the call of   *)
(* an exported function (or the return of a callback) up to the next       *)
(* invocation of a callback, or to the return to the caller.               *)
(*                                                                         *)
(* dispatcherMap is not a variable: getDispatcher creates a dispatcher     *)
(* with _filters = null and _messages = null, and every read of _messages  *)
(* (lines 404, 411, 452, 484, 494) treats null as the empty queue, so a    *)
(* handler without dispatcher or queue is one with an empty chain and an   *)
(* empty queue.                                                            *)
(***************************************************************************)
EXTENDS Naturals, Sequences, FiniteSets

\* ---------------------------------------------------------------- bounds
\* Under Spec (every operation): messages created, links allocated.
MaxMsgs == 2
MaxLinks == 2
\* Under SendSpec (filters and sent messages only).
MaxSendMsgs == 2
MaxSendLinks == 3
\* Under PostSpec (posted messages and the loop only).
MaxPostMsgs == 3
MaxPostOnlyMsgs == 4
\* Frames on the call stack (runMessageLoop and nested sendMessage calls).
MaxDepth == 2
MaxDrainMsgs == 2
MaxDrainLinks == 2

\* The handler objects; CompressHandlers implement compressMessage.
Handlers == {1, 2}
CompressHandlers == {2}
\* The filter objects.
Filters == {1, 2}
\* The handlers SendSpec sends to: it explores the chain of one handler.
SendHandlers == {1}

\* null: the sentinel of dispatchQueue, a null link, a tombstoned filter.
Null == 0
\* void 0: the value of frameId when no wake up is scheduled.
Undefined == 0

MsgIds == 1..(MaxMsgs + MaxSendMsgs + MaxPostMsgs + MaxPostOnlyMsgs)
LinkIds == 1..(MaxLinks + MaxSendLinks)

VARIABLES
    filters,        \* handler -> _filters: head link of the chain, or Null
    links,          \* the heap of IFilterLink objects: id -> [next, filter]
    nlinks,         \* number of links allocated so far
    messages,       \* handler -> _messages as a sequence (front first)
    dispatchQueue,  \* the queue of pending handlers, Null = sentinel
    frameId,        \* Undefined, or the id of the scheduled wake up
    rafCallbacks,   \* number of runMessageLoop callbacks held by the host
    stack,          \* the call stack, innermost frame last
    nextMsg,        \* history: id of the next message created
    info,           \* history: message -> [h, posted]
    fate,           \* history: message -> what became of it
    processed,      \* history: messages in order of processMessage calls
    suppressed,     \* history: messages for which a filterMessage returned true
    dispatchedBy,   \* history: message -> who called sendMessage with it
    postedInCycle   \* history: messages enqueued since the running cycle began

vars == <<filters, links, nlinks, messages, dispatchQueue, frameId,
          rafCallbacks, stack, nextMsg, info, fate, processed, suppressed,
          dispatchedBy, postedInCycle>>

heapVars == <<filters, links, nlinks>>
wakeVars == <<frameId, rafCallbacks>>

\* ------------------------------------------------------------ call stack
\* A frame of runMessageLoop (pc = "loop") or of MessageDispatcher.sendMessage
\* for message m of handler h: pc = "filter" while links[link].filter's
\* filterMessage runs, "process" while h.processMessage runs.  via tells who
\* called sendMessage ("send", "pending", "loop"); filter is the filter object
\* whose filterMessage runs; visited lists the links whose filter was invoked
\* for m so far.
LoopFrame ==
    [pc |-> "loop", h |-> Null, m |-> 0, link |-> Null, filter |-> Null,
     via |-> "loop", visited |-> <<>>]

Top == stack[Len(stack)]

Pop(s) == SubSeq(s, 1, Len(s) - 1)

\* Exported functions are called by the host (empty stack) or by the user
\* callback that is running.
CanCall == IF stack = <<>> THEN TRUE ELSE Top.pc \in {"filter", "process"}

InLoop == IF stack = <<>> THEN FALSE ELSE stack[1].pc = "loop"

Init ==
    /\ filters = [h \in Handlers |-> Null]
    /\ links = [l \in LinkIds |-> [next |-> Null, filter |-> Null]]
    /\ nlinks = 0
    /\ messages = [h \in Handlers |-> <<>>]
    /\ dispatchQueue = <<>>
    /\ frameId = Undefined
    /\ rafCallbacks = 0
    /\ stack = <<>>
    /\ nextMsg = 1
    /\ info = [m \in MsgIds |-> [h |-> Null, posted |-> FALSE]]
    /\ fate = [m \in MsgIds |-> "none"]
    /\ processed = <<>>
    /\ suppressed = {}
    /\ dispatchedBy = [m \in MsgIds |-> "none"]
    /\ postedInCycle = {}

\* ------------------------------------------------------------ filter chain
\* The links reached from link by following next (tombstoned links included).
RECURSIVE Chain(_, _)
Chain(ls, link) ==
    IF link = Null THEN <<>> ELSE <<link>> \o Chain(ls, ls[link].next)

\* removeMessageFilter that stops matching after the first occurrence.
RECURSIVE RemoveFirstOnly(_, _, _, _, _)
RemoveFirstOnly(ls, head, link, prev, f) ==
    IF link = Null
    THEN IF prev = Null
         THEN [links |-> ls, head |-> Null]
         ELSE [links |-> [ls EXCEPT ![prev].next = Null], head |-> head]
    ELSE IF f # Null /\ ls[link].filter = f
         THEN LET ls1 == [ls EXCEPT ![link].filter = Null]
              IN  RemoveFirstOnly(ls1, head, ls1[link].next, prev, Null)
         ELSE IF prev = Null
              THEN RemoveFirstOnly(ls, link, ls[link].next, link, f)
              ELSE LET ls1 == [ls EXCEPT ![prev].next = link]
                   IN  RemoveFirstOnly(ls1, head, ls1[link].next, link, f)

\* removeMessageFilter that also cuts a removed link off its successors.
RECURSIVE RemoveAndCut(_, _, _, _, _)
RemoveAndCut(ls, head, link, prev, f) ==
    IF link = Null
    THEN IF prev = Null
         THEN [links |-> ls, head |-> Null]
         ELSE [links |-> [ls EXCEPT ![prev].next = Null], head |-> head]
    ELSE IF ls[link].filter = f
         THEN LET ls1 == [ls EXCEPT ![link] = [next |-> Null, filter |-> Null]]
              IN  RemoveAndCut(ls1, head, ls[link].next, prev, f)
         ELSE IF prev = Null
              THEN RemoveAndCut(ls, link, ls[link].next, link, f)
              ELSE LET ls1 == [ls EXCEPT ![prev].next = link]
                   IN  RemoveAndCut(ls1, head, ls1[link].next, link, f)

\* The loop of removeMessageFilter: link is the cursor and prev the last link
\* kept so far; returns the heap and the head after the loop and the code
\* that follows it.
RECURSIVE RemoveLoop(_, _, _, _, _)
RemoveLoop(ls, head, link, prev, f) ==
    IF link = Null
    THEN IF prev = Null
         THEN [links |-> ls, head |-> Null]
         ELSE [links |-> [ls EXCEPT ![prev].next = Null], head |-> head]
    ELSE IF ls[link].filter = f
         THEN LET ls1 == [ls EXCEPT ![link].filter = Null]
              IN  RemoveLoop(ls1, head, ls1[link].next, prev, f)
         ELSE IF prev = Null
              THEN RemoveLoop(ls, link, ls[link].next, link, f)
              ELSE LET ls1 == [ls EXCEPT ![prev].next = link]
                   IN  RemoveLoop(ls1, head, ls1[link].next, link, f)

\* A clear that drops the chain without touching its links.
ClearNothing(ls, link) == ls

\* MessageDispatcher.clear without its loop: the head link alone is tombstoned.
ClearHeadOnly(ls, link) ==
    IF link = Null THEN ls ELSE [ls EXCEPT ![link].filter = Null]

\* The loop of MessageDispatcher.clear: every link from link on is tombstoned.
RECURSIVE ClearLoop(_, _)
ClearLoop(ls, link) ==
    IF link = Null THEN ls
    ELSE ClearLoop([ls EXCEPT ![link].filter = Null], ls[link].next)

\* A for loop of _filterMessage that does not test link.filter.
FirstLiveNoSkip(ls, link) == link

\* The for loop of _filterMessage from cursor link up to the first link whose
\* filter is not null (the one it invokes), or to the end of the chain.
RECURSIVE FirstLive(_, _)
FirstLive(ls, link) ==
    IF link = Null THEN Null
    ELSE IF ls[link].filter # Null THEN link
    ELSE FirstLive(ls, ls[link].next)

\* A removal that empties the queue of every handler, keeping the sentinels.
RemoveEveryHandler(q, v) == SelectSeq(q, LAMBDA x : x = Null)

\* Queue.removeAll(value) of phosphor-queue, as clearMessageData calls it.
RemoveAll(q, v) == SelectSeq(q, LAMBDA x : x # v)

\* ------------------------------------------------------------- scheduler
\* A wake up that schedules a callback whenever the dispatch queue is not
\* empty, scheduled already or not.
WakeUpAgain(fid, cbs, dq) ==
    IF dq # <<>>
    THEN [frameId |-> 1, rafCallbacks |-> cbs + 1]
    ELSE [frameId |-> fid, rafCallbacks |-> cbs]

\* wakeUpMessageLoop() when frameId is fid, the host holds cbs callbacks and
\* the dispatch queue is dq: the frameId and the callbacks after it.
WakeUp(fid, cbs, dq) ==
    IF fid = Undefined /\ dq # <<>>
    THEN [frameId |-> 1, rafCallbacks |-> cbs + 1]
    ELSE [frameId |-> fid, rafCallbacks |-> cbs]

wakeUpMessageLoop(dq) ==
    /\ frameId' = WakeUp(frameId, rafCallbacks, dq).frameId
    /\ rafCallbacks' = WakeUp(frameId, rafCallbacks, dq).rafCallbacks

\* hasPendingMessages that looks for the handler in the dispatch queue.
HasPendingEntry(h) == \E i \in 1..Len(dispatchQueue) : dispatchQueue[i] = h

\* MessageDispatcher.hasPendingMessages
HasPending(h) == messages[h] # <<>>

\* A pop that takes the newest message of the queue.
PopNewest(q) == [msg |-> q[Len(q)], rest |-> SubSeq(q, 1, Len(q) - 1)]

\* A pop that reads the front of the queue and leaves it there.
PopPeek(q) == [msg |-> Head(q), rest |-> q]

\* this._messages.pop() of sendPendingMessage: the front of the queue.
PopMessage(q) == [msg |-> Head(q), rest |-> Tail(q)]

\* sendMessage that calls processMessage only when no filter has run.
DeliverUnfilteredOnly(base, h, m, start, via, vis, fate0) ==
    LET l == FirstLive(links, start)
    IN  IF l # Null
        THEN /\ stack' = Append(base, [pc |-> "filter", h |-> h, m |-> m,
                                       link |-> l, filter |-> links[l].filter,
                                       via |-> via, visited |-> Append(vis, l)])
             /\ fate' = [fate0 EXCEPT ![m] = "inflight"]
             /\ processed' = processed
             /\ dispatchedBy' = [dispatchedBy EXCEPT ![m] = via]
        ELSE IF vis # <<>>
             THEN /\ stack' = base
                  /\ fate' = [fate0 EXCEPT ![m] = "dropped"]
                  /\ processed' = processed
                  /\ dispatchedBy' = [dispatchedBy EXCEPT ![m] = via]
             ELSE /\ stack' = Append(base, [pc |-> "process", h |-> h, m |-> m,
                                            link |-> Null, filter |-> Null,
                                            via |-> via, visited |-> vis])
                  /\ fate' = [fate0 EXCEPT ![m] = "processed"]
                  /\ processed' = Append(processed, m)
                  /\ dispatchedBy' = [dispatchedBy EXCEPT ![m] = via]

\* MessageDispatcher.sendMessage(handler, msg) called from a frame whose stack
\* is base, with _filterMessage's cursor at start: the library runs up to the
\* first filter it invokes, or to the call of processMessage.  vis lists the
\* links already visited for m, fate0 is the history before the call.
Deliver(base, h, m, start, via, vis, fate0) ==
    LET l == FirstLive(links, start)
    IN  IF l # Null
        THEN /\ stack' = Append(base, [pc |-> "filter", h |-> h, m |-> m,
                                       link |-> l, filter |-> links[l].filter,
                                       via |-> via, visited |-> Append(vis, l)])
             /\ fate' = [fate0 EXCEPT ![m] = "inflight"]
             /\ processed' = processed
             /\ dispatchedBy' = [dispatchedBy EXCEPT ![m] = via]
        ELSE /\ stack' = Append(base, [pc |-> "process", h |-> h, m |-> m,
                                       link |-> Null, filter |-> Null,
                                       via |-> via, visited |-> vis])
             /\ fate' = [fate0 EXCEPT ![m] = "processed"]
             /\ processed' = Append(processed, m)
             /\ dispatchedBy' = [dispatchedBy EXCEPT ![m] = via]

\* The while loop of runMessageLoop from a dispatch queue dq: it pops up to
\* the first handler whose sendPendingMessage finds a message (target), or up
\* to its return, at the sentinel (wake) or on an empty queue.
RECURSIVE LoopScan(_, _)
LoopScan(dq, msgs) ==
    IF dq = <<>> THEN [dq |-> dq, target |-> Null, wake |-> FALSE]
    ELSE IF Head(dq) = Null
         THEN [dq |-> Tail(dq), target |-> Null, wake |-> TRUE]
         ELSE IF msgs[Head(dq)] # <<>>
              THEN [dq |-> Tail(dq), target |-> Head(dq), wake |-> FALSE]
              ELSE LoopScan(Tail(dq), msgs)

\* A while loop that returns at the sentinel without waking the loop up.
LoopContinueNoWake(dq, fid, cbs, fate0, pic) ==
    LET r == LoopScan(dq, messages)
    IN  /\ dispatchQueue' = r.dq
        /\ frameId' = fid
        /\ rafCallbacks' = cbs
        /\ IF r.target = Null
           THEN /\ stack' = <<>>
                /\ fate' = fate0
                /\ postedInCycle' = {}
                /\ UNCHANGED <<messages, processed, dispatchedBy>>
           ELSE /\ messages' = [messages EXCEPT ![r.target] = PopMessage(@).rest]
                /\ Deliver(<<LoopFrame>>, r.target, PopMessage(messages[r.target]).msg,
                           filters[r.target], "loop", <<>>, fate0)
                /\ postedInCycle' = pic

\* runMessageLoop's while loop run from queue dq, with frameId fid and cbs
\* callbacks held by the host: dispatchMessage of the next pending message,
\* or the return of runMessageLoop.
LoopContinue(dq, fid, cbs, fate0, pic) ==
    LET r == LoopScan(dq, messages)
    IN  /\ dispatchQueue' = r.dq
        /\ IF r.target = Null
           THEN /\ stack' = <<>>
                /\ frameId' = IF r.wake THEN WakeUp(fid, cbs, r.dq).frameId ELSE fid
                /\ rafCallbacks' =
                       IF r.wake THEN WakeUp(fid, cbs, r.dq).rafCallbacks ELSE cbs
                /\ fate' = fate0
                /\ postedInCycle' = {}
                /\ UNCHANGED <<messages, processed, dispatchedBy>>
           ELSE /\ messages' = [messages EXCEPT ![r.target] = PopMessage(@).rest]
                /\ Deliver(<<LoopFrame>>, r.target, PopMessage(messages[r.target]).msg,
                           filters[r.target], "loop", <<>>, fate0)
                /\ frameId' = fid
                /\ rafCallbacks' = cbs
                /\ postedInCycle' = pic

\* sendMessage returns to the frame on top of base: to runMessageLoop, which
\* goes on with its loop, or to the user code (or the host) that called it.
Return(base, fate0) ==
    IF base # <<>> /\ base[Len(base)].pc = "loop"
    THEN LoopContinue(dispatchQueue, frameId, rafCallbacks, fate0, postedInCycle)
    ELSE /\ stack' = base
         /\ fate' = fate0
         /\ UNCHANGED <<messages, dispatchQueue, wakeVars, processed, dispatchedBy,
                        postedInCycle>>

\* _compressMessage that asks the handler also when nothing is pending.
CompressMessageAlways(h, r) ==
    IF h \notin CompressHandlers THEN FALSE
    ELSE r

\* MessageDispatcher._compressMessage; r is what handler.compressMessage
\* returns when it is called.
CompressMessage(h, r) ==
    IF h \notin CompressHandlers THEN FALSE
    ELSE IF messages[h] = <<>> THEN FALSE
    ELSE r

\* _enqueueMessage that pushes the handler only when the dispatch queue does
\* not hold it yet.
EnqueueMessageOneEntry(h, m) ==
    /\ messages' = [messages EXCEPT ![h] = Append(@, m)]
    /\ dispatchQueue' = IF h \in {dispatchQueue[i] : i \in 1..Len(dispatchQueue)}
                        THEN dispatchQueue ELSE Append(dispatchQueue, h)
    /\ wakeUpMessageLoop(Append(dispatchQueue, h))
    /\ postedInCycle' = IF InLoop THEN postedInCycle \cup {m} ELSE postedInCycle

\* _enqueueMessage that puts the message at the front of the pending queue.
EnqueueMessageFirst(h, m) ==
    /\ messages' = [messages EXCEPT ![h] = <<m>> \o @]
    /\ dispatchQueue' = Append(dispatchQueue, h)
    /\ wakeUpMessageLoop(Append(dispatchQueue, h))
    /\ postedInCycle' = IF InLoop THEN postedInCycle \cup {m} ELSE postedInCycle

\* _enqueueMessage that puts the handler at the front of the dispatch queue.
EnqueueHandlerFirst(h, m) ==
    /\ messages' = [messages EXCEPT ![h] = Append(@, m)]
    /\ dispatchQueue' = <<h>> \o dispatchQueue
    /\ wakeUpMessageLoop(<<h>> \o dispatchQueue)
    /\ postedInCycle' = IF InLoop THEN postedInCycle \cup {m} ELSE postedInCycle

\* MessageDispatcher._enqueueMessage
EnqueueMessage(h, m) ==
    /\ messages' = [messages EXCEPT ![h] = Append(@, m)]
    /\ dispatchQueue' = Append(dispatchQueue, h)
    /\ wakeUpMessageLoop(Append(dispatchQueue, h))
    /\ postedInCycle' = IF InLoop THEN postedInCycle \cup {m} ELSE postedInCycle

\* ------------------------------------------------- exported functions
\* sendMessage that posts the message and sends the oldest pending one.
sendMessageThroughQueue(h) ==
    /\ CanCall
    /\ LET q == Append(messages[h], nextMsg)
       IN  /\ messages' = [messages EXCEPT ![h] = Tail(q)]
           /\ Deliver(stack, h, Head(q), filters[h], "send", <<>>,
                      [fate EXCEPT ![nextMsg] = "pending"])
    /\ dispatchQueue' = Append(dispatchQueue, h)
    /\ wakeUpMessageLoop(Append(dispatchQueue, h))
    /\ info' = [info EXCEPT ![nextMsg] = [h |-> h, posted |-> FALSE]]
    /\ nextMsg' = nextMsg + 1
    /\ UNCHANGED <<heapVars, suppressed, postedInCycle>>

sendMessage(h) ==
    /\ CanCall
    /\ Deliver(stack, h, nextMsg, filters[h], "send", <<>>, fate)
    /\ info' = [info EXCEPT ![nextMsg] = [h |-> h, posted |-> FALSE]]
    /\ nextMsg' = nextMsg + 1
    /\ UNCHANGED <<heapVars, messages, dispatchQueue, wakeVars, suppressed,
                   postedInCycle>>

\* postMessage that sends the message at once when nothing is pending.
postMessageSendsIdle(h, r) ==
    /\ CanCall
    /\ info' = [info EXCEPT ![nextMsg] = [h |-> h, posted |-> TRUE]]
    /\ nextMsg' = nextMsg + 1
    /\ IF CompressMessage(h, r)
       THEN /\ fate' = [fate EXCEPT ![nextMsg] = "compressed"]
            /\ UNCHANGED <<messages, dispatchQueue, wakeVars, postedInCycle,
                           stack, processed, dispatchedBy>>
       ELSE IF messages[h] = <<>> /\ Len(stack) < MaxDepth
            THEN /\ Deliver(stack, h, nextMsg, filters[h], "send", <<>>, fate)
                 /\ UNCHANGED <<messages, dispatchQueue, wakeVars, postedInCycle>>
            ELSE /\ fate' = [fate EXCEPT ![nextMsg] = "pending"]
                 /\ EnqueueMessage(h, nextMsg)
                 /\ UNCHANGED <<stack, processed, dispatchedBy>>
    /\ UNCHANGED <<heapVars, suppressed>>

postMessage(h, r) ==
    /\ CanCall
    /\ info' = [info EXCEPT ![nextMsg] = [h |-> h, posted |-> TRUE]]
    /\ nextMsg' = nextMsg + 1
    /\ IF CompressMessage(h, r)
       THEN /\ fate' = [fate EXCEPT ![nextMsg] = "compressed"]
            /\ UNCHANGED <<messages, dispatchQueue, wakeVars, postedInCycle>>
       ELSE /\ fate' = [fate EXCEPT ![nextMsg] = "pending"]
            /\ EnqueueMessage(h, nextMsg)
    /\ UNCHANGED <<heapVars, stack, processed, suppressed, dispatchedBy>>

hasPendingMessages(h) ==
    /\ CanCall
    /\ HasPending(h) \in BOOLEAN
    /\ UNCHANGED vars

\* sendPendingMessage that hands the message to processMessage directly.
sendPendingMessageUnfiltered(h) ==
    /\ CanCall
    /\ IF HasPending(h)
       THEN /\ messages' = [messages EXCEPT ![h] = PopMessage(@).rest]
            /\ Deliver(stack, h, PopMessage(messages[h]).msg, Null, "pending",
                       <<>>, fate)
       ELSE UNCHANGED <<messages, stack, fate, processed, dispatchedBy>>
    /\ UNCHANGED <<heapVars, dispatchQueue, wakeVars, nextMsg, info, suppressed,
                   postedInCycle>>

sendPendingMessage(h) ==
    /\ CanCall
    /\ IF HasPending(h)
       THEN /\ messages' = [messages EXCEPT ![h] = PopMessage(@).rest]
            /\ Deliver(stack, h, PopMessage(messages[h]).msg, filters[h], "pending",
                       <<>>, fate)
       ELSE UNCHANGED <<messages, stack, fate, processed, dispatchedBy>>
    /\ UNCHANGED <<heapVars, dispatchQueue, wakeVars, nextMsg, info, suppressed,
                   postedInCycle>>

\* installMessageFilter that drops the new link when the chain holds the
\* filter already.
installMessageFilterOnce(h, f) ==
    /\ CanCall
    /\ nlinks' = nlinks + 1
    /\ IF \E i \in 1..Len(Chain(links, filters[h])) :
             links[Chain(links, filters[h])[i]].filter = f
       THEN UNCHANGED <<links, filters>>
       ELSE /\ links' = [links EXCEPT ![nlinks + 1] = [next |-> filters[h], filter |-> f]]
            /\ filters' = [filters EXCEPT ![h] = nlinks + 1]
    /\ UNCHANGED <<messages, dispatchQueue, wakeVars, stack, nextMsg, info, fate,
                   processed, suppressed, dispatchedBy, postedInCycle>>

\* installMessageFilter that adds the new link at the end of the chain.
installMessageFilterLast(h, f) ==
    /\ CanCall
    /\ nlinks' = nlinks + 1
    /\ LET c == Chain(links, filters[h])
       IN  IF c = <<>>
           THEN /\ links' = [links EXCEPT ![nlinks + 1] = [next |-> Null, filter |-> f]]
                /\ filters' = [filters EXCEPT ![h] = nlinks + 1]
           ELSE /\ links' = [links EXCEPT ![nlinks + 1] = [next |-> Null, filter |-> f],
                                          ![c[Len(c)]].next = nlinks + 1]
                /\ filters' = filters
    /\ UNCHANGED <<messages, dispatchQueue, wakeVars, stack, nextMsg, info, fate,
                   processed, suppressed, dispatchedBy, postedInCycle>>

installMessageFilter(h, f) ==
    /\ CanCall
    /\ nlinks' = nlinks + 1
    /\ links' = [links EXCEPT ![nlinks + 1] = [next |-> filters[h], filter |-> f]]
    /\ filters' = [filters EXCEPT ![h] = nlinks + 1]
    /\ UNCHANGED <<messages, dispatchQueue, wakeVars, stack, nextMsg, info, fate,
                   processed, suppressed, dispatchedBy, postedInCycle>>

removeMessageFilter(h, f) ==
    /\ CanCall
    /\ LET r == RemoveLoop(links, filters[h], filters[h], Null, f)
       IN  /\ links' = r.links
           /\ filters' = [filters EXCEPT ![h] = r.head]
    /\ UNCHANGED <<nlinks, messages, dispatchQueue, wakeVars, stack, nextMsg,
                   info, fate, processed, suppressed, dispatchedBy, postedInCycle>>

clearMessageData(h) ==
    /\ CanCall
    /\ messages' = [messages EXCEPT ![h] = <<>>]
    /\ links' = ClearLoop(links, filters[h])
    /\ filters' = [filters EXCEPT ![h] = Null]
    /\ dispatchQueue' = RemoveAll(dispatchQueue, h)
    /\ fate' = [m \in MsgIds |->
                   IF \E i \in 1..Len(messages[h]) : messages[h][i] = m
                   THEN "cleared" ELSE fate[m]]
    /\ UNCHANGED <<nlinks, wakeVars, stack, nextMsg, info, processed, suppressed,
                   dispatchedBy, postedInCycle>>

\* _filterMessage that goes on with the chain whatever the filter returned.
filterMessageAnyResult(r) ==
    /\ stack # <<>> /\ Top.pc = "filter"
    /\ suppressed' = IF r THEN suppressed \cup {Top.m} ELSE suppressed
    /\ Deliver(Pop(stack), Top.h, Top.m, links[Top.link].next, Top.via,
               Top.visited, fate)
    /\ UNCHANGED <<messages, dispatchQueue, wakeVars, postedInCycle>>
    /\ UNCHANGED <<heapVars, nextMsg, info>>

\* ------------------------------------------------------- user callbacks
\* The running filterMessage returns r: a filtered message ends sendMessage,
\* otherwise _filterMessage goes on from link.next.
filterMessageReturn(r) ==
    /\ stack # <<>> /\ Top.pc = "filter"
    /\ suppressed' = IF r THEN suppressed \cup {Top.m} ELSE suppressed
    /\ IF r
       THEN Return(Pop(stack), [fate EXCEPT ![Top.m] = "filtered"])
       ELSE /\ Deliver(Pop(stack), Top.h, Top.m, links[Top.link].next, Top.via,
                       Top.visited, fate)
            /\ UNCHANGED <<messages, dispatchQueue, wakeVars, postedInCycle>>
    /\ UNCHANGED <<heapVars, nextMsg, info>>

\* The running processMessage returns, and sendMessage with it.
processMessageReturn ==
    /\ stack # <<>> /\ Top.pc = "process"
    /\ Return(Pop(stack), fate)
    /\ UNCHANGED <<heapVars, nextMsg, info, suppressed>>

\* A throw that dispatchMessage catches and drops: the loop goes on.
throwErrorSwallowed ==
    /\ stack # <<>> /\ Top.pc \in {"filter", "process"}
    /\ LET f == [m \in MsgIds |->
                   IF \E i \in 1..Len(stack) : stack[i].m = m /\ stack[i].pc = "filter"
                   THEN "threw" ELSE fate[m]]
       IN  IF InLoop
           THEN LoopContinue(dispatchQueue, frameId, rafCallbacks, f, postedInCycle)
           ELSE /\ stack' = <<>>
                /\ fate' = f
                /\ postedInCycle' = {}
                /\ UNCHANGED <<wakeVars, messages, dispatchQueue, processed,
                               dispatchedBy>>
    /\ UNCHANGED <<heapVars, nextMsg, info, suppressed>>

\* A throw that dispatchMessage does not catch: the loop is not woken up.
throwErrorNoWakeUp ==
    /\ stack # <<>> /\ Top.pc \in {"filter", "process"}
    /\ stack' = <<>>
    /\ fate' = [m \in MsgIds |->
                   IF \E i \in 1..Len(stack) : stack[i].m = m /\ stack[i].pc = "filter"
                   THEN "threw" ELSE fate[m]]
    /\ postedInCycle' = {}
    /\ UNCHANGED <<heapVars, wakeVars, messages, dispatchQueue, nextMsg, info,
                   processed, suppressed, dispatchedBy>>

\* The running callback throws.  No library frame catches but dispatchMessage,
\* which wakes the loop up and rethrows: the error unwinds the whole stack and
\* reaches the host.
throwError ==
    /\ stack # <<>> /\ Top.pc \in {"filter", "process"}
    /\ stack' = <<>>
    /\ IF InLoop THEN wakeUpMessageLoop(dispatchQueue) ELSE UNCHANGED wakeVars
    /\ fate' = [m \in MsgIds |->
                   IF \E i \in 1..Len(stack) : stack[i].m = m /\ stack[i].pc = "filter"
                   THEN "threw" ELSE fate[m]]
    /\ postedInCycle' = {}
    /\ UNCHANGED <<heapVars, messages, dispatchQueue, nextMsg, info, processed,
                   suppressed, dispatchedBy>>

\* runMessageLoop that pushes no sentinel: it runs until the queue is empty.
runMessageLoopNoSentinel ==
    /\ stack = <<>> /\ rafCallbacks > 0
    /\ IF dispatchQueue = <<>>
       THEN /\ frameId' = Undefined
            /\ rafCallbacks' = rafCallbacks - 1
            /\ UNCHANGED <<dispatchQueue, messages, stack, fate, processed,
                           dispatchedBy, postedInCycle>>
       ELSE LoopContinue(dispatchQueue, Undefined, rafCallbacks - 1, fate, {})
    /\ UNCHANGED <<heapVars, nextMsg, info, suppressed>>

\* The host fires the scheduled callback.
runMessageLoop ==
    /\ stack = <<>> /\ rafCallbacks > 0
    /\ IF dispatchQueue = <<>>
       THEN /\ frameId' = Undefined
            /\ rafCallbacks' = rafCallbacks - 1
            /\ UNCHANGED <<dispatchQueue, messages, stack, fate, processed,
                           dispatchedBy, postedInCycle>>
       ELSE LoopContinue(IF dispatchQueue[Len(dispatchQueue)] # Null
                         THEN Append(dispatchQueue, Null) ELSE dispatchQueue,
                         Undefined, rafCallbacks - 1, fate, {})
    /\ UNCHANGED <<heapVars, nextMsg, info, suppressed>>

\* ----------------------------------------------------------- specification
\* The steps that neither create a message nor allocate a link.
Callbacks ==
    \/ \E r \in BOOLEAN : filterMessageReturn(r)
    \/ processMessageReturn
    \/ throwError

Next ==
    \/ \E h \in Handlers :
          nextMsg <= MaxMsgs /\ Len(stack) < MaxDepth /\ sendMessage(h)
    \/ \E h \in Handlers, r \in BOOLEAN : nextMsg <= MaxMsgs /\ postMessage(h, r)
    \/ \E h \in Handlers : hasPendingMessages(h)
    \/ \E h \in Handlers :
          (HasPending(h) => Len(stack) < MaxDepth) /\ sendPendingMessage(h)
    \/ \E h \in Handlers, f \in Filters :
          nlinks < MaxLinks /\ installMessageFilter(h, f)
    \/ \E h \in Handlers, f \in Filters : removeMessageFilter(h, f)
    \/ \E h \in Handlers : clearMessageData(h)
    \/ Callbacks
    \/ runMessageLoop

Spec == Init /\ [][Next]_vars

\* The filter chain of one handler and the messages sent to it: no message
\* is posted, so the loop never runs.
SendNext ==
    \/ \E h \in SendHandlers :
          nextMsg <= MaxSendMsgs /\ Len(stack) < MaxDepth /\ sendMessage(h)
    \/ \E h \in SendHandlers, f \in Filters :
          nlinks < MaxSendLinks /\ installMessageFilter(h, f)
    \/ \E h \in SendHandlers, f \in Filters : removeMessageFilter(h, f)
    \/ \E h \in SendHandlers : clearMessageData(h)
    \/ Callbacks

SendSpec == Init /\ [][SendNext]_vars

\* Posted messages and the loop alone: no filter is installed and no
\* message is sent.
PostNext ==
    \/ \E h \in Handlers, r \in BOOLEAN : nextMsg <= MaxPostMsgs /\ postMessage(h, r)
    \/ \E h \in Handlers : hasPendingMessages(h)
    \/ \E h \in Handlers :
          (HasPending(h) => Len(stack) < MaxDepth) /\ sendPendingMessage(h)
    \/ \E h \in Handlers : clearMessageData(h)
    \/ processMessageReturn
    \/ throwError
    \/ runMessageLoop

PostSpec == Init /\ [][PostNext]_vars

\* PostSpec with a host that fires every callback it holds and with user
\* callbacks that end, by a return or by a throw.
LiveSpec ==
    /\ Init /\ [][PostNext]_vars
    /\ WF_vars(runMessageLoop)
    /\ WF_vars(processMessageReturn \/ throwError)

\* postMessage alone, without compression, and the loop: no message is sent
\* early, no message data is cleared and no handler throws.
PostOnlyNext ==
    \/ \E h \in Handlers : nextMsg <= MaxPostOnlyMsgs /\ postMessage(h, FALSE)
    \/ processMessageReturn
    \/ runMessageLoop

PostOnlySpec == Init /\ [][PostOnlyNext]_vars

\* Posted messages of one handler whose filters are installed and removed
\* only after the first message was posted.
DrainNext ==
    \/ \E h \in SendHandlers, r \in BOOLEAN :
          nextMsg <= MaxDrainMsgs /\ postMessage(h, r)
    \/ \E h \in SendHandlers :
          (HasPending(h) => Len(stack) < MaxDepth) /\ sendPendingMessage(h)
    \/ \E h \in SendHandlers, f \in Filters :
          nextMsg > 1 /\ nlinks < MaxDrainLinks /\ installMessageFilter(h, f)
    \/ \E h \in SendHandlers, f \in Filters : removeMessageFilter(h, f)
    \/ Callbacks
    \/ runMessageLoop

DrainSpec == Init /\ [][DrainNext]_vars

\* ------------------------------------------------------------- properties
Range(s) == {s[i] : i \in 1..Len(s)}

Count(s, x) == Cardinality({i \in 1..Len(s) : s[i] = x})

Pos(s, x) == CHOOSE i \in 1..Len(s) : s[i] = x

\* The messages created so far.
Created == 1..(nextMsg - 1)

\* The frames of sendMessage on the stack.
Frames == {i \in 1..Len(stack) : stack[i].pc # "loop"}

OnStack(m) == \E i \in Frames : stack[i].m = m

Decreasing(s) == \A i, j \in 1..Len(s) : i < j => s[i] > s[j]

\* The links of h's chain whose filter is installed, and their filters.
LiveChain(ls, head) == SelectSeq(Chain(ls, head), LAMBDA l : ls[l].filter # Null)

\* The links _filterMessage still invokes when its cursor stands at link.
LiveRest(ls, link) == LiveChain(ls, ls[link].next)

\* C1: a sent message for which no filter returned true is processed exactly
\* once, before sendMessage returns (a message whose sendMessage is no more
\* on the stack, and did not throw, was processed; while a filter runs it is
\* not yet processed); and a send that began after an earlier send to the
\* same handler had returned is processed after it.
C1_SendProcessesOnce ==
    /\ \A m \in Created : ~info[m].posted =>
          /\ Count(processed, m) <= 1
          /\ (~OnStack(m) /\ m \notin suppressed /\ fate[m] # "threw")
                => Count(processed, m) = 1
          /\ \A i \in Frames : stack[i].m = m =>
                Count(processed, m) = (IF stack[i].pc = "process" THEN 1 ELSE 0)
    /\ \A i \in Frames : \A m1 \in Created :
          (/\ stack[i].pc = "process"
           /\ ~info[stack[i].m].posted /\ ~info[m1].posted
           /\ info[m1].h = stack[i].h
           /\ m1 < stack[i].m
           /\ ~OnStack(m1)
           /\ m1 \in Range(processed))
          => Pos(processed, m1) < Pos(processed, stack[i].m)

\* The second of two sent messages is being processed after a filter let it
\* pass.
C1_Witness ==
    /\ stack # <<>>
    /\ Top.pc = "process" /\ Top.visited # <<>> /\ Top.via = "send"
    /\ processed = <<1, 2>>
    /\ Top.m = 2

\* C2: once a filter returned true for a message, sent or posted, the message
\* is neither handed to another filter nor to processMessage: it is off the
\* stack, not pending, and was not processed.
C2_SuppressedStops ==
    \A m \in suppressed :
        /\ ~OnStack(m)
        /\ m \notin Range(processed)
        /\ \A h \in Handlers : m \notin Range(messages[h])
        /\ fate[m] = "filtered"

\* A sent and a posted message were both suppressed by a filter.
C2_Witness ==
    \E m1, m2 \in suppressed : info[m1].posted /\ ~info[m2].posted

\* C3: links are numbered in order of installation.  The filters of a handler
\* stand in its chain latest first, and every message meets the filters it is
\* handed to latest first, whatever was installed or removed meanwhile.
C3_LatestFirst ==
    /\ \A h \in Handlers :
          /\ Decreasing(Chain(links, filters[h]))
          /\ LiveChain(links, filters[h]) = Chain(links, filters[h])
    /\ \A i \in Frames :
          /\ Decreasing(stack[i].visited)
          /\ stack[i].pc = "filter" =>
                stack[i].visited[Len(stack[i].visited)] = stack[i].link

\* A message met the filter installed third and then the one installed
\* first, the second having been removed.
C3_Witness ==
    /\ stack # <<>>
    /\ Top.visited = <<3, 1>>
    /\ links[2].filter = Null

\* C4: removeMessageFilter(h, f) leaves h's chain as it was without the links
\* of f, the links kept in their order and with their filters; the chains of
\* the other handlers stay; and when f is not installed nothing changes.
C4_RemoveAllOccurrences ==
    [][\A h \in Handlers, f \in Filters :
          removeMessageFilter(h, f) =>
             /\ Chain(links', filters'[h]) =
                   SelectSeq(Chain(links, filters[h]), LAMBDA l : links[l].filter # f)
             /\ \A l \in Range(Chain(links', filters'[h])) :
                   links'[l].filter = links[l].filter
             /\ \A g \in Handlers \ {h} :
                   /\ filters'[g] = filters[g]
                   /\ Chain(links', filters'[g]) = Chain(links, filters[g])
             /\ (\A l \in Range(Chain(links, filters[h])) : links[l].filter # f)
                   => UNCHANGED vars
      ]_vars

\* The filter installed first and third is removed, the one installed second
\* is the whole chain.
C4_Witness ==
    /\ nlinks = 3
    /\ filters[1] = 2
    /\ Chain(links, filters[1]) = <<2>>
    /\ links[1].filter = Null /\ links[3].filter = Null
    /\ links[3].next = 2
    /\ links[2].filter # Null

\* C5: when the filter that runs removes itself from the handler it runs
\* for, the dispatch stays on the stack, the filters it still has to invoke
\* are those it had to invoke before without the removed filter's, each
\* still once and in order, and no link of the chain holds the removed
\* filter any more.
C5_SelfRemovalSafe ==
    [][(/\ stack # <<>>
        /\ Top.pc = "filter"
        /\ removeMessageFilter(Top.h, Top.filter))
       => /\ stack' = stack
          /\ LiveRest(links', Top.link) =
                SelectSeq(LiveRest(links, Top.link),
                          LAMBDA l : links[l].filter # Top.filter)
          /\ \A l \in Range(LiveRest(links', Top.link)) :
                links'[l].filter = links[l].filter
          /\ \A l \in Range(Chain(links', filters'[Top.h])) :
                links'[l].filter # Top.filter
      ]_vars

\* The running filter's link is removed and a filter after it is still to
\* be invoked.
C5_Witness ==
    /\ stack # <<>>
    /\ Top.pc = "filter"
    /\ links[Top.link].filter = Null
    /\ LiveRest(links, Top.link) # <<>>

\* C6: the step that posts a message leaves the call stack and the list of
\* processed messages as they were, and no posted message is ever dispatched
\* by anything but sendPendingMessage or the loop.
C6_PostDefers ==
    /\ [](\A m \in Created : info[m].posted =>
             dispatchedBy[m] \in {"none", "pending", "loop"})
    /\ [][(nextMsg' = nextMsg + 1 /\ info'[nextMsg].posted)
          => /\ stack' = stack
             /\ processed' = processed
             /\ dispatchedBy' = dispatchedBy
             /\ fate'[nextMsg] \in {"pending", "compressed"}
         ]_vars

\* A message was posted from a callback to a handler with a filter installed
\* and nothing was pending: it is pending and untouched.
C6_Witness ==
    \E m \in Created :
        /\ info[m].posted
        /\ fate[m] = "pending"
        /\ dispatchedBy[m] = "none"
        /\ messages[info[m].h] = <<m>>
        /\ filters[info[m].h] # Null
        /\ stack # <<>>

\* C7: the pending queue of a handler holds its messages in the order
\* posted, every message of the handler dispatched so far was posted before
\* those still pending, and the posted messages of a handler are processed
\* in the order posted.
C7_PerHandlerFifo ==
    /\ \A h \in Handlers :
          /\ \A i, j \in 1..Len(messages[h]) :
                i < j => messages[h][i] < messages[h][j]
          /\ \A m \in Created :
                (info[m].posted /\ info[m].h = h /\ dispatchedBy[m] # "none")
                   => \A i \in 1..Len(messages[h]) : m < messages[h][i]
    /\ \A i, j \in 1..Len(processed) :
          (/\ i < j
           /\ info[processed[i]].posted /\ info[processed[j]].posted
           /\ info[processed[i]].h = info[processed[j]].h)
          => processed[i] < processed[j]

\* Three messages of one handler were processed, one by sendPendingMessage
\* and one by the loop.
C7_Witness ==
    /\ Len(processed) = 3
    /\ \A i \in 1..3 : info[processed[i]].h = info[processed[1]].h
    /\ \E i, j \in 1..3 :
          dispatchedBy[processed[i]] = "pending" /\ dispatchedBy[processed[j]] = "loop"

\* C8: with postMessage alone and the loop, messages are processed in the
\* order posted, whatever their handlers.
C8_GlobalOrderPostOnly ==
    \A i \in 1..Len(processed) : processed[i] = i

\* A cycle has processed four messages posted in turn to two handlers.
C8_Witness ==
    /\ InLoop
    /\ processed = <<1, 2, 3, 4>>
    /\ postedInCycle = {}
    /\ info[1].h # info[2].h /\ info[2].h # info[3].h /\ info[3].h # info[4].h

\* C9: two posted messages that the loop dispatched were processed in the
\* order posted.
C9_GlobalFifo ==
    \A i, j \in 1..Len(processed) :
        (/\ i < j
         /\ info[processed[i]].posted /\ info[processed[j]].posted
         /\ dispatchedBy[processed[i]] = "loop"
         /\ dispatchedBy[processed[j]] = "loop")
        => processed[i] < processed[j]

\* C10: the running cycle dispatches no message posted since it began.
C10_NoSameCycleDispatch ==
    \A i \in Frames :
        stack[i].via = "loop" => stack[i].m \notin postedInCycle


\* C11: when a cycle ends by the return of runMessageLoop (the loop stood on
\* the stack, the stack empties and the dispatch queue was popped, which a
\* throw never does), every message still pending was posted during the
\* cycle: those pending at its start were all dispatched, or cleared.
C11_CycleDrainsPending ==
    [][(/\ InLoop
        /\ stack' = <<>>
        /\ dispatchQueue' # dispatchQueue)
       => \A h \in Handlers : \A i \in 1..Len(messages'[h]) :
             messages'[h][i] \in postedInCycle
      ]_vars

\* C12: postMessage(h, M), compressMessage returning r when it is called,
\* discards M exactly when h implements compressMessage, h has a message
\* pending and r is true, and then changes neither of the queues nor the
\* wake up; otherwise it appends M to h's pending queue and h to the dispatch
\* queue, and a wake up is scheduled (one more callback when none was).
C12_CompressOrEnqueue ==
    [][\A h \in Handlers, r \in BOOLEAN :
          postMessage(h, r) =>
             IF h \in CompressHandlers /\ messages[h] # <<>> /\ r
             THEN /\ fate'[nextMsg] = "compressed"
                  /\ messages' = messages
                  /\ dispatchQueue' = dispatchQueue
                  /\ frameId' = frameId
                  /\ rafCallbacks' = rafCallbacks
             ELSE /\ fate'[nextMsg] = "pending"
                  /\ messages' = [messages EXCEPT ![h] = Append(@, nextMsg)]
                  /\ dispatchQueue' = Append(dispatchQueue, h)
                  /\ frameId' # Undefined
                  /\ rafCallbacks' =
                        rafCallbacks + (IF frameId = Undefined THEN 1 ELSE 0)
      ]_vars

\* A handler that compresses has one message pending, a later one was
\* discarded, and the one after that was enqueued.
C12_Witness ==
    \E h \in CompressHandlers :
        /\ messages[h] = <<1, 3>>
        /\ info[2].h = h /\ fate[2] = "compressed"

\* C13: the step that sends a message changes neither a pending queue, nor
\* the dispatch queue, nor the wake up; the message is not compressed but
\* handed at once to the first filter of its handler, or to processMessage
\* when there is none, whatever the handler has pending.
C13_SendBypassesQueue ==
    [][(nextMsg' = nextMsg + 1 /\ ~info'[nextMsg].posted)
       => /\ messages' = messages
          /\ dispatchQueue' = dispatchQueue
          /\ frameId' = frameId
          /\ rafCallbacks' = rafCallbacks
          /\ fate'[nextMsg] \in {"inflight", "processed"}
          /\ Len(stack') = Len(stack) + 1
          /\ stack'[Len(stack')].m = nextMsg
          /\ stack'[Len(stack')].h = info'[nextMsg].h
          /\ stack'[Len(stack')].via = "send"
          /\ IF filters[info'[nextMsg].h] = Null
             THEN /\ stack'[Len(stack')].pc = "process"
                  /\ processed' = Append(processed, nextMsg)
             ELSE /\ stack'[Len(stack')].pc = "filter"
                  /\ stack'[Len(stack')].link = filters[info'[nextMsg].h]
                  /\ processed' = processed
      ]_vars

\* A sent message is being processed while an older posted message of its
\* handler is still pending.
C13_Witness ==
    /\ stack # <<>>
    /\ Top.pc = "process" /\ Top.via = "send"
    /\ messages[Top.h] # <<>>
    /\ Head(messages[Top.h]) < Top.m
    /\ Top.h \in Range(dispatchQueue)

\* C14: hasPendingMessages(h) is true exactly when a message posted to h was
\* enqueued and has since been neither dispatched nor cleared, and the
\* messages pending for h are exactly those.
C14_HasPendingExact ==
    \A h \in Handlers :
        /\ HasPending(h) <=>
              \E m \in Created :
                  info[m].posted /\ info[m].h = h /\ fate[m] = "pending"
        /\ Range(messages[h]) =
              {m \in Created : info[m].posted /\ info[m].h = h /\ fate[m] = "pending"}

\* A handler has nothing pending although the dispatch queue still holds it
\* (its message went out by sendPendingMessage), while another handler has.
C14_Witness ==
    \E h \in Handlers, m \in Created :
        /\ ~HasPending(h)
        /\ h \in Range(dispatchQueue)
        /\ info[m].h = h /\ dispatchedBy[m] = "pending"
        /\ \E g \in Handlers \ {h} : HasPending(g)

\* C15: sendPendingMessage(h) with a message pending takes the oldest off
\* h's queue, and that one alone, and hands it at once to the first filter of
\* h, or to processMessage when there is none, as sendMessage does; the
\* dispatch queue and the wake up stay.  With nothing pending nothing changes.
C15_SendPendingOldest ==
    [][\A h \in Handlers :
          sendPendingMessage(h) =>
             IF messages[h] # <<>>
             THEN /\ messages' = [messages EXCEPT ![h] = Tail(@)]
                  /\ dispatchQueue' = dispatchQueue
                  /\ frameId' = frameId
                  /\ rafCallbacks' = rafCallbacks
                  /\ Len(stack') = Len(stack) + 1
                  /\ stack'[Len(stack')].m = Head(messages[h])
                  /\ stack'[Len(stack')].h = h
                  /\ stack'[Len(stack')].via = "pending"
                  /\ IF filters[h] = Null
                     THEN /\ stack'[Len(stack')].pc = "process"
                          /\ processed' = Append(processed, Head(messages[h]))
                     ELSE /\ stack'[Len(stack')].pc = "filter"
                          /\ stack'[Len(stack')].link = filters[h]
                          /\ processed' = processed
             ELSE UNCHANGED vars
      ]_vars

\* sendPendingMessage, called by the host, handed the older of two pending
\* messages to a filter; the newer is still pending.
C15_Witness ==
    /\ Len(stack) = 1
    /\ Top.pc = "filter" /\ Top.via = "pending"
    /\ messages[Top.h] # <<>>
    /\ Top.m < Head(messages[Top.h])

\* C16: clearMessageData(h) leaves h without pending message, without entry
\* in the dispatch queue and without filter, every link of its chain being
\* tombstoned; a cleared message is never dispatched; and no filter it removed
\* is invoked afterwards, for every installed filter stands in a chain, a
\* tombstoned link stays tombstoned and a filter is only invoked from a link
\* that holds it.
C16_ClearIsFinal ==
    /\ [](/\ \A m \in Created : fate[m] = "cleared" =>
                /\ ~OnStack(m)
                /\ m \notin Range(processed)
                /\ dispatchedBy[m] = "none"
                /\ \A h \in Handlers : m \notin Range(messages[h])
          /\ \A l \in 1..nlinks : links[l].filter # Null =>
                \E h \in Handlers : l \in Range(Chain(links, filters[h])))
    /\ [][/\ \A h \in Handlers :
                clearMessageData(h) =>
                   /\ messages'[h] = <<>>
                   /\ h \notin Range(dispatchQueue')
                   /\ filters'[h] = Null
                   /\ \A l \in Range(Chain(links, filters[h])) :
                         links'[l].filter = Null
                   /\ \A m \in Range(messages[h]) : fate'[m] = "cleared"
          /\ \A l \in 1..nlinks : links[l].filter = Null => links'[l].filter = Null
          /\ (/\ stack' # <<>>
              /\ stack'[Len(stack')].pc = "filter"
              /\ \/ Len(stack') > Len(stack)
                 \/ Len(stack') = Len(stack) /\ stack'[Len(stack')] # stack[Len(stack)])
             => /\ links'[stack'[Len(stack')].link].filter # Null
                /\ links'[stack'[Len(stack')].link].filter = stack'[Len(stack')].filter
         ]_vars

\* The first message was sent to h and is with its first filter, which has
\* since posted a second message to h and cleared h's message data: the
\* second message is cleared and the link of the filter still to come is
\* tombstoned.
C16_Witness ==
    /\ Len(stack) = 1
    /\ Top.pc = "filter" /\ Top.via = "send" /\ Top.m = 1
    /\ Len(Top.visited) = 1
    /\ fate[2] = "cleared" /\ info[2].h = Top.h
    /\ filters[Top.h] = Null
    /\ links[Top.link].filter = Null
    /\ links[Top.link].next # Null

\* C17: under LiveSpec every pending message eventually leaves its queue, by
\* a dispatch or by clearMessageData, whatever throws meanwhile; and whenever
\* the library is not running and a message is pending, the host holds a
\* callback and the dispatch queue an entry of the handler.
C17_EventuallyDispatched ==
    /\ \A m \in 1..MaxPostMsgs : (fate[m] = "pending") ~> (fate[m] # "pending")
    /\ [](\A h \in Handlers : (stack = <<>> /\ HasPending(h)) =>
             (rafCallbacks > 0 /\ h \in Range(dispatchQueue)))

\* A cycle ended by a throw: the sentinel is still in the dispatch queue,
\* messages are pending and the loop is woken up again.
C17_Witness ==
    /\ stack = <<>>
    /\ Null \in Range(dispatchQueue)
    /\ \E h \in Handlers : HasPending(h)
    /\ rafCallbacks = 1

\* The entries of handler g in a dispatch queue.
EntriesOf(q, g) == SelectSeq(q, LAMBDA x : x = g)

\* C18: installMessageFilter, removeMessageFilter, postMessage,
\* sendPendingMessage and clearMessageData on a handler h leave the pending
\* queue, the chain and its links, and the dispatch queue entries of every
\* other handler as they were.
C18_KeyedByHandler ==
    [][\A h \in Handlers :
          (\/ \E f \in Filters : installMessageFilter(h, f)
           \/ \E f \in Filters : removeMessageFilter(h, f)
           \/ \E r \in BOOLEAN : postMessage(h, r)
           \/ sendPendingMessage(h)
           \/ clearMessageData(h))
          => \A g \in Handlers \ {h} :
                /\ messages'[g] = messages[g]
                /\ filters'[g] = filters[g]
                /\ Chain(links', filters'[g]) = Chain(links, filters[g])
                /\ \A l \in Range(Chain(links, filters[g])) : links'[l] = links[l]
                /\ EntriesOf(dispatchQueue', g) = EntriesOf(dispatchQueue, g)
      ]_vars

\* The message data of handler 1 was cleared, a message posted to it and a
\* filter installed on it before; handler 2 still has its filter, its
\* pending message and its entry in the dispatch queue.
C18_Witness ==
    /\ \E m \in Created : fate[m] = "cleared" /\ info[m].h = 1
    /\ filters[1] = Null
    /\ 1 \notin Range(dispatchQueue)
    /\ \E l \in 1..nlinks : links[l].filter = Null
    /\ filters[2] # Null
    /\ HasPending(2)
    /\ 2 \in Range(dispatchQueue)

\* C19: installMessageFilter(h, f) puts a new link holding f in front of
\* h's chain and leaves the links of the chain as they are, whether or not
\* one of them holds f; and a dispatch invokes every link once: the links it
\* has visited are distinct, and every installed link of the chain that is
\* not newer than the first link visited, and that the walk has reached, is
\* among them.
C19_InstallAlwaysLinks ==
    /\ [](\A i \in Frames : stack[i].visited # <<>> =>
             /\ Decreasing(stack[i].visited)
             /\ \A l \in Range(LiveChain(links, filters[stack[i].h])) :
                   (/\ l <= stack[i].visited[1]
                    /\ stack[i].pc = "filter" => l >= stack[i].link)
                   => l \in Range(stack[i].visited))
    /\ [][\A h \in Handlers, f \in Filters :
             installMessageFilter(h, f) =>
                /\ Chain(links', filters'[h]) =
                      <<nlinks + 1>> \o Chain(links, filters[h])
                /\ links'[nlinks + 1].filter = f
                /\ \A l \in Range(Chain(links, filters[h])) : links'[l] = links[l]
         ]_vars

\* A message went through the two links of a filter installed twice and is
\* being processed.
C19_Witness ==
    /\ stack # <<>>
    /\ Top.pc = "process"
    /\ Top.visited = <<2, 1>>
    /\ links[1].filter # Null
    /\ links[1].filter = links[2].filter

\* C20: the host never holds more than one callback, and holds one exactly
\* when frameId is set; a callback is scheduled only when none is and the
\* dispatch queue is not empty; only the host, by firing it, consumes the
\* callback; and when runMessageLoop dispatches its first message frameId
\* is cleared and no callback is left.
C20_SingleWakeUp ==
    /\ [](/\ rafCallbacks <= 1
          /\ frameId = Undefined <=> rafCallbacks = 0)
    /\ [][/\ rafCallbacks' > rafCallbacks =>
                /\ frameId = Undefined
                /\ rafCallbacks = 0
                /\ frameId' # Undefined
                /\ dispatchQueue' # <<>>
          /\ rafCallbacks' < rafCallbacks => stack = <<>>
          /\ (stack = <<>> /\ stack' # <<>> /\ stack'[1].pc = "loop") =>
                /\ frameId # Undefined
                /\ frameId' = Undefined
                /\ rafCallbacks' = 0
         ]_vars

\* A handler run by the loop has posted two messages: the first scheduled
\* the next callback, the second did not schedule another.
C20_Witness ==
    /\ InLoop
    /\ Cardinality(postedInCycle) = 2
    /\ rafCallbacks = 1
    /\ frameId # Undefined

\* C21: a throw of processMessage or filterMessage under a running cycle
\* reaches the host (the stack is unwound), leaves the dispatch queue and
\* the pending queues as they are, and leaves a callback scheduled when the
\* dispatch queue is not empty.  Hence whenever the host runs and the
\* sentinel of an aborted cycle is in the dispatch queue, a callback is
\* scheduled and every handler with a pending message has an entry.
C21_ThrowRearms ==
    /\ [](\A h \in Handlers :
             (stack = <<>> /\ Null \in Range(dispatchQueue)) =>
                /\ frameId # Undefined /\ rafCallbacks = 1
                /\ HasPending(h) => h \in Range(dispatchQueue))
    /\ [][(InLoop /\ throwError) =>
             /\ stack' = <<>>
             /\ dispatchQueue' = dispatchQueue
             /\ messages' = messages
             /\ processed' = processed
             /\ dispatchQueue # <<>> => (frameId' # Undefined /\ rafCallbacks' = 1)
         ]_vars

\* A filter threw on the first message of a cycle: the message is gone, the
\* entry and the message of the next handler and the sentinel are still
\* there, and a callback is scheduled.
C21_Witness ==
    /\ stack = <<>>
    /\ \E m \in Created : fate[m] = "threw" /\ dispatchedBy[m] = "loop"
    /\ Len(dispatchQueue) = 2
    /\ dispatchQueue[1] # Null /\ dispatchQueue[2] = Null
    /\ HasPending(dispatchQueue[1])
    /\ rafCallbacks = 1

\* The entries of q in front of its first sentinel, and those behind it.
RECURSIVE BeforeSentinel(_)
BeforeSentinel(q) ==
    IF q = <<>> \/ Head(q) = Null THEN <<>>
    ELSE <<Head(q)>> \o BeforeSentinel(Tail(q))

AfterSentinel(q) == SubSeq(q, Len(BeforeSentinel(q)) + 2, Len(q))

\* C22: every cycle ends, and it pops no more than the entries that were in
\* the dispatch queue when it started plus one sentinel.  While a cycle runs
\* the sentinel is in the queue; the entries in front of it are fewer than
\* the queue held at the start, never grow (what is posted lands behind it)
\* and lose one with every message the cycle dispatches; the cycle stops
\* right after the sentinel; no frame dispatches to the sentinel.
C22_CycleBounded ==
    /\ [](InLoop => Null \in Range(dispatchQueue))
    /\ [](\A i \in Frames : stack[i].h \in Handlers)
    /\ [][(stack = <<>> /\ InLoop') =>
             Len(BeforeSentinel(dispatchQueue')) < Len(dispatchQueue)]_vars
    /\ [][(InLoop /\ InLoop') =>
             /\ Len(BeforeSentinel(dispatchQueue')) <= Len(BeforeSentinel(dispatchQueue))
             /\ (nextMsg' = nextMsg + 1 /\ dispatchQueue' # dispatchQueue) =>
                   AfterSentinel(dispatchQueue') =
                      Append(AfterSentinel(dispatchQueue), info'[nextMsg].h)
             /\ \A m \in Created :
                   (dispatchedBy[m] = "none" /\ dispatchedBy'[m] = "loop") =>
                      Len(BeforeSentinel(dispatchQueue')) <
                         Len(BeforeSentinel(dispatchQueue))
         ]_vars
    /\ [][(InLoop /\ stack' = <<>> /\ dispatchQueue' # dispatchQueue) =>
             dispatchQueue' = AfterSentinel(dispatchQueue)]_vars
    /\ (InLoop ~> stack = <<>>)

\* A handler dispatched by the cycle has posted: the new entry is behind the
\* sentinel, which is all the cycle still has to pop.
C22_Witness ==
    /\ InLoop
    /\ postedInCycle # {}
    /\ Len(dispatchQueue) >= 2
    /\ Head(dispatchQueue) = Null
    /\ \E m \in postedInCycle : HasPending(info[m].h)

\* C23: the filters of a posted message are those of the moment of its
\* dispatch.  The post invokes nothing; the step that dispatches a posted
\* message, from sendPendingMessage or from the loop, invokes the first
\* installed filter of the handler's chain as it is at that step, or
\* processMessage when the chain holds none.
C23_FiltersAtDrain ==
    [][/\ (nextMsg' = nextMsg + 1 /\ info'[nextMsg].posted) =>
             (stack' = stack /\ suppressed' = suppressed /\ processed' = processed)
       /\ \A m \in Created :
             (info[m].posted /\ dispatchedBy[m] = "none" /\ dispatchedBy'[m] # "none") =>
                LET fr == stack'[Len(stack')]
                    live == LiveChain(links, filters[info[m].h])
                IN  /\ fr.m = m /\ fr.h = info[m].h
                    /\ IF live = <<>>
                       THEN fr.pc = "process" /\ fr.visited = <<>>
                       ELSE /\ fr.pc = "filter"
                            /\ fr.link = Head(live)
                            /\ fr.filter = links[Head(live)].filter
                            /\ fr.visited = <<Head(live)>>
      ]_vars

\* The first message was posted before any filter was installed; the loop
\* dispatched it and a filter suppressed it.
C23_Witness ==
    /\ info[1].posted
    /\ dispatchedBy[1] = "loop"
    /\ 1 \in suppressed
    /\ fate[1] = "filtered"

\* C24: whenever no library operation is on the stack, the dispatch queue
\* holds each handler once per message of its pending queue.
C24_EntryPerMessage ==
    stack = <<>> =>
       \A h \in Handlers : Len(EntriesOf(dispatchQueue, h)) = Len(messages[h])

\* C25: clearMessageData(h) called while messages are being dispatched to h
\* aborts none of these dispatches: the frames stay as they are, nothing is
\* processed or suppressed by the call, and no filter is left for the walks
\* in progress to invoke; and when the running filter of a handler without
\* filter chain returns false, processMessage is invoked for its message.
C25_ClearKeepsDispatch ==
    [][/\ \A h \in Handlers :
             (clearMessageData(h) /\ \E i \in Frames : stack[i].h = h) =>
                /\ stack' = stack
                /\ processed' = processed
                /\ suppressed' = suppressed
                /\ \A i \in Frames :
                      stack[i].h = h =>
                         /\ fate'[stack[i].m] = fate[stack[i].m]
                         /\ stack[i].pc = "filter" =>
                               LiveRest(links', stack[i].link) = <<>>
       /\ (/\ stack # <<>>
           /\ Top.pc = "filter"
           /\ filters[Top.h] = Null
           /\ filterMessageReturn(FALSE))
          => /\ stack' = Append(Pop(stack),
                                [Top EXCEPT !.pc = "process", !.link = Null,
                                            !.filter = Null])
             /\ processed' = Append(processed, Top.m)
      ]_vars

\* The first message was sent to h, whose chain held two links; its first
\* filter returned false and the handler is processing it, though in the
\* meantime a second message was posted to h and cleared with h's message
\* data: the second link was tombstoned before the walk reached it.
C25_Witness ==
    /\ Len(stack) = 1
    /\ Top.pc = "process" /\ Top.via = "send" /\ Top.m = 1
    /\ Top.visited = <<2>>
    /\ fate[2] = "cleared" /\ info[2].h = Top.h
    /\ filters[Top.h] = Null
    /\ links[1].filter = Null /\ links[2].filter = Null
    /\ links[2].next = 1
    /\ 1 \in Range(processed)

\* C26: during a dispatch, when the running filter returns false the walk
\* invokes the first installed link behind its cursor, and processMessage
\* when there is none; removeMessageFilter(h, f) takes the links holding f,
\* and no other, out of what every walk in progress on h still has to
\* invoke; installMessageFilter leaves what the walks in progress still have
\* to invoke as it is, so the new filter is not invoked for the messages in
\* flight.
C26_WalkUnderChange ==
    [][/\ (/\ stack # <<>> /\ Top.pc = "filter"
           /\ Len(stack') = Len(stack)
           /\ stack'[Len(stack')].m = Top.m
           /\ stack'[Len(stack')] # Top)
          => LET fr == stack'[Len(stack')]
                 rest == LiveRest(links, Top.link)
             IN  IF rest = <<>>
                 THEN fr.pc = "process" /\ fr.visited = Top.visited
                 ELSE /\ fr.pc = "filter"
                      /\ fr.link = Head(rest)
                      /\ fr.filter = links[Head(rest)].filter
                      /\ fr.visited = Append(Top.visited, Head(rest))
       /\ \A h \in Handlers, f \in Filters :
             removeMessageFilter(h, f) =>
                \A i \in Frames :
                   (stack[i].h = h /\ stack[i].pc = "filter") =>
                      LiveRest(links', stack[i].link) =
                         SelectSeq(LiveRest(links, stack[i].link),
                                   LAMBDA l : links[l].filter # f)
       /\ \A h \in Handlers, f \in Filters :
             installMessageFilter(h, f) =>
                \A i \in Frames :
                   stack[i].pc = "filter" =>
                      LiveRest(links', stack[i].link) = LiveRest(links, stack[i].link)
      ]_vars

\* The walk of a message began at the second link, whose filter returned
\* false; the first link was removed and a third one was installed after
\* the walk began: neither was invoked and the message is being processed.
C26_Witness ==
    /\ Len(stack) = 1
    /\ Top.pc = "process"
    /\ Top.visited = <<2>>
    /\ links[2].filter # Null /\ links[2].next = Null
    /\ links[1].filter = Null
    /\ nlinks = 3 /\ filters[Top.h] = 3
    /\ links[3].filter # Null /\ links[3].next = 2

\* C27: a posted message is dispatched at most once.  It stands at most
\* once in the pending queues, and only in that of its handler; once it is
\* dispatched, by sendPendingMessage or by the loop, it is in no pending
\* queue any more, whether it is still on the stack, was processed, was
\* suppressed or threw; at most one frame dispatches it and it is processed
\* at most once.
C27_DispatchedAtMostOnce ==
    \A m \in Created : info[m].posted =>
       /\ Count(processed, m) <= 1
       /\ Cardinality({i \in Frames : stack[i].m = m}) <= 1
       /\ \A h \in Handlers :
             /\ Count(messages[h], m) <= 1
             /\ m \in Range(messages[h]) =>
                   /\ h = info[m].h
                   /\ dispatchedBy[m] = "none"
                   /\ fate[m] = "pending"
       /\ (\/ OnStack(m) \/ m \in Range(processed) \/ m \in suppressed
           \/ fate[m] \in {"threw", "inflight", "processed", "filtered"})
          => dispatchedBy[m] \in {"pending", "loop"}

\* The first of two messages posted to a handler was delivered early by
\* sendPendingMessage, a filter threw on the second in a cycle, and the
\* cycles have since emptied the dispatch queue: nothing was dispatched
\* again.
C27_Witness ==
    /\ stack = <<>>
    /\ info[1].posted /\ info[2].posted /\ info[1].h = info[2].h
    /\ dispatchedBy[1] = "pending" /\ dispatchedBy[2] = "loop"
    /\ processed = <<1>>
    /\ fate[2] = "threw"
    /\ dispatchQueue = <<>> /\ rafCallbacks = 0

\* C28: in every state the dispatch queue holds each handler at least as
\* many times as its pending queue holds messages.
C28_EntryForEveryMessage ==
    \A h \in Handlers : Len(EntriesOf(dispatchQueue, h)) >= Len(messages[h])

\* A handler with a pending message and more entries than messages: one of
\* its entries is stale.
C28_Witness ==
    \E h \in Handlers :
       /\ HasPending(h)
       /\ Len(EntriesOf(dispatchQueue, h)) > Len(messages[h])

\* C29: whenever the host runs and the dispatch queue is not empty, a
\* callback is scheduled and frameId is set; and a callback that fires on an
\* empty dispatch queue clears frameId and does nothing else.
C29_ArmedWhenQueued ==
    /\ []((stack = <<>> /\ dispatchQueue # <<>>) =>
             (frameId # Undefined /\ rafCallbacks = 1))
    /\ [][(stack = <<>> /\ dispatchQueue = <<>> /\ rafCallbacks' < rafCallbacks) =>
             /\ frameId' = Undefined
             /\ rafCallbacks' = 0
             /\ UNCHANGED <<heapVars, messages, dispatchQueue, stack, processed,
                            suppressed, fate, dispatchedBy, nextMsg, info>>
         ]_vars

\* A handler threw on the only message of a cycle: the sentinel alone is
\* left in the dispatch queue, no message is pending, and a callback is
\* scheduled.
C29_Witness ==
    /\ stack = <<>>
    /\ dispatchQueue = <<Null>>
    /\ \A h \in Handlers : ~HasPending(h)
    /\ frameId # Undefined /\ rafCallbacks = 1

====
